---- MODULE Spec2Model ----
(***************************************************************************)
(* Model of pl_tools/canvas.py: the conversion of a Canvas quiz into a     *)
(* PrairieLearn assessment.  Quiz.questions() (the question/group          *)
(* reconciler) and the assembler loop of main() are modelled step by step, *)
(* one step per HTTP request, per loop iteration and per operator prompt.  *)
(*                                                                         *)
(* Strings are sequences of one-character strings.  None is 0 for ids      *)
(* (Canvas ids are positive) and the string "None" elsewhere.              *)
(***************************************************************************)
EXTENDS Integers, Sequences, FiniteSets, TLC

\* Bounds of the model.
MaxQuestions == 3
MaxPos == 2
MaxImages == 1
\* Records per page (per_page=100 in the request of line 151, scaled down).
PerPage == 2
\* Pieces (text or placeholder) of a question body and answers of a question.
MaxPieces == 3
MaxAnswers == 2
\* Tokens (tags or text) of a question body given to handle_images().
MaxTokens == 4

\* The group ids a question may carry; NoGroup is quiz_group_id = None.
GroupIds == {1, 2}
NoGroup == 0

VARIABLES
    pc,                 \* position in main()
    err,                \* the exception that ended the run, "None" if none
    marker,             \* os.path.exists(<pl_repo>/infoCourse.json)
    requests,           \* number of HTTP GETs issued so far
    failed,             \* a GET has returned a status raise_for_status rejects
    quiz_title,         \* quiz["title"]
    wire,               \* the question records of the pages fetched so far
    qi,                 \* index of the next wire question in Quiz.questions()
    i,                  \* the counter i of Quiz.questions()
    questions,          \* the dict questions, in insertion (later sorted) order
    groups,             \* the dict groups, in insertion (later sorted) order
    gi,                 \* index of the next group in the shift loop
    shifted,            \* the group ids the shift loop has handled, in order
    group_requests,     \* GETs of each group record, per group id
    qdirs,              \* names present in questions_dir
    adirs,              \* names present in assessments_dir
    files,              \* files and sub-directories created in question dirs
    quiz_name,          \* the name of the assessment directory
    k,                  \* index of the next question in the loop of main()
    pl_quiz_questions,  \* the list pl_quiz_questions
    created,            \* the question directories created by this run, in order
    written,            \* the question list written to infoAssessment.json
    last,               \* what the last step did
    question_text,      \* the body of the question being rendered
    question_answers,   \* question["answers"] of the question being rendered
    template,           \* what has been written to question.html
    template_written,   \* question.html has been written
    image_text,         \* the text handle_images() is called with
    image_out,          \* the text handle_images() returned
    image_count,        \* the image files handle_images() has written
    images_handled      \* handle_images() has returned

vars == <<pc, err, marker, requests, failed, quiz_title, wire, qi, i, questions,
          groups, gi, shifted, group_requests, qdirs, adirs, files, quiz_name, k,
          pl_quiz_questions, created, written, last,
          question_text, question_answers, template, template_written,
          image_text, image_out, image_count, images_handled>>

mainVars == <<pc, err, marker, requests, failed, quiz_title, wire, qi, i, questions,
              groups, gi, shifted, group_requests, qdirs, adirs, files, quiz_name,
              k, pl_quiz_questions, created, written, last>>
renderVars == <<question_text, question_answers, template, template_written>>
imageVars == <<image_text, image_out, image_count, images_handled>>

reconcilerVars == <<wire, qi, i, questions, groups, gi, shifted, group_requests>>
fsVars == <<qdirs, adirs, files, quiz_name, created, written>>
assemblerVars == <<k, pl_quiz_questions>>

----------------------------------------------------------------------------
\* Helpers on sequences.

Range(s) == {s[n] : n \in 1..Len(s)}

\* Insert record r into the sequence s, sorted ascending by position, after
\* every element whose position is <= r.position.
RECURSIVE InsertByPosition(_, _)
InsertByPosition(s, r) ==
    IF s = <<>> THEN <<r>>
    ELSE IF Head(s).position <= r.position
         THEN <<Head(s)>> \o InsertByPosition(Tail(s), r)
         ELSE <<r>> \o s

RECURSIVE SortedKeepOrder(_)
SortedKeepOrder(s) ==
    IF s = <<>> THEN <<>>
    ELSE InsertByPosition(SortedKeepOrder(SubSeq(s, 1, Len(s) - 1)), s[Len(s)])

\* The items left in insertion order.
Unsorted(s) == s

\* sorted(items, key=position): ascending and stable.
SortedByPosition(s) == SortedKeepOrder(s)

----------------------------------------------------------------------------
\* Canvas.request: the outcome of one GET.

\* A status check that never raises.
NeverRaises(ok) == FALSE

\* response.raise_for_status() raises for the statuses it rejects.
RaiseForStatus(ok) == ~ok

----------------------------------------------------------------------------
\* Quiz.questions(): the question/group reconciler.

\* A question record as it arrives on the wire; `images` is the number of
\* <img> tags with an absolute src in its question_text.
WireQuestion(id, gid) ==
    [id |-> id, quiz_group_id |-> gid, points_possible |-> 1, position |-> 0,
     images |-> id % (MaxImages + 1)]

\* A group record as the API returns it.
GroupRecord(gid, pos) ==
    [id |-> gid, position |-> pos, question_points |-> gid + 1,
     pick_count |-> gid, pl_alt |-> 0]

\* What GET .../groups/<gid> may answer: null, an empty object, or a record.
GroupResponses(gid) ==
    {[kind |-> "null"], [kind |-> "empty"]}
        \cup {[kind |-> "record", group |-> GroupRecord(gid, p)] : p \in 1..MaxPos}

\* Truthiness of a response, as `if group:` tests it.
Truthy(resp) == resp.kind = "record"

\* A cache that is never hit.
InGroupsNever(gs, gid) == FALSE

\* `question["quiz_group_id"] in groups`
InGroups(gs, gid) == \E n \in 1..Len(gs) : gs[n].id = gid

\* `groups[gid]`
GroupOf(gs, gid) == gs[CHOOSE n \in 1..Len(gs) : gs[n].id = gid]

\* Positioned with the counter read after its increment.
PositionedAfterIncrement(q, hasGroup, group, counter) ==
    IF hasGroup
    THEN [q EXCEPT !.points_possible = group.question_points,
                   !.position = group.position]
    ELSE [q EXCEPT !.position = counter + 1]

\* Lines 160-165: the question with its position and points set.
Positioned(q, hasGroup, group, counter) ==
    IF hasGroup
    THEN [q EXCEPT !.points_possible = group.question_points,
                   !.position = group.position]
    ELSE [q EXCEPT !.position = counter]

\* Line 173: the questions the shift loop moves for grp.
ShiftsQuestion(q, grp) ==
    q.position >= grp.position /\ q.quiz_group_id = NoGroup

\* Lines 172-175: the shift of one group.
ShiftFor(qs, grp) ==
    [n \in 1..Len(qs) |->
        IF ShiftsQuestion(qs[n], grp)
        THEN [qs[n] EXCEPT !.position = @ + 1]
        ELSE qs[n]]

\* The shift loop run once per member question instead of once per group.
ShiftTargetsPerMember(gs, qs) ==
    LET members == SelectSeq(qs, LAMBDA q : InGroups(gs, q.quiz_group_id))
    IN  [n \in 1..Len(members) |-> GroupOf(gs, members[n].quiz_group_id)]

\* Line 168: what the shift loop iterates over.
ShiftTargets(gs, qs) == gs

----------------------------------------------------------------------------
\* file_name_only and the choice of directory names.

WordChars == {"a", "q", "1", "2"}

\* re.sub(r"[\W_]+", "", name): only letters and digits are kept.
file_name_only(name) == SelectSeq(name, LAMBDA c : c \in WordChars)

DigitChar == <<"0", "1", "2", "3", "4", "5", "6", "7", "8", "9">>

\* str(n) for n >= 0.
RECURSIVE Decimal(_)
Decimal(n) ==
    IF n < 10 THEN <<DigitChar[n + 1]>>
    ELSE Decimal(n \div 10) \o <<DigitChar[(n % 10) + 1]>>

\* f"{base}_{suffix}"
Suffixed(base, suffix) == base \o <<"_">> \o Decimal(suffix)

\* os.path.exists(os.path.join(dir, name)) for a directory dir that exists and
\* holds `entries`: joining the empty name gives the directory itself.
PathExists(name, entries) == name = <<>> \/ name \in entries

\* A single probe: base_<suffix+1> is taken without looking at it.
ProbeOnce(base, name, suffix, entries) ==
    IF PathExists(name, entries) THEN Suffixed(base, suffix + 1) ELSE name

\* Lines 354-356: probe base_<suffix+1>, base_<suffix+2>, ... while the name exists.
RECURSIVE ProbeSuffix(_, _, _, _)
ProbeSuffix(base, name, suffix, entries) ==
    IF PathExists(name, entries)
    THEN ProbeSuffix(base, Suffixed(base, suffix + 1), suffix + 1, entries)
    ELSE name

\* Lines 352-357: the directory name of a question titled `title`.
QuestionName(title, entries) ==
    ProbeSuffix(file_name_only(title), file_name_only(title), 0, entries)

\* Lines 316-318: the first free base_<suffix>, suffix >= 1.
RECURSIVE FirstFreeSuffix(_, _, _)
FirstFreeSuffix(base, suffix, entries) ==
    IF PathExists(Suffixed(base, suffix), entries)
    THEN FirstFreeSuffix(base, suffix + 1, entries)
    ELSE Suffixed(base, suffix)

\* Lines 314-319: the name of the assessment directory.
AssessmentName(title, entries) ==
    IF PathExists(file_name_only(title), entries)
    THEN FirstFreeSuffix(file_name_only(title), 1, entries)
    ELSE file_name_only(title)

----------------------------------------------------------------------------
\* The assembler loop of main().

\* No title skips the question.
IsBlankNever(title) == FALSE

\* Line 350: `if not question_title`.
IsBlank(title) == title = <<>>

\* Lines 360-363.
QuestionAlt(title, question, name) ==
    [kind |-> "alt",
     id |-> file_name_only(title) \o <<"/">> \o name,
     points |-> question.points_possible]

\* Line 365: `if question["quiz_group_id"]`.
HasGroupId(question) == question.quiz_group_id # NoGroup

\* A wrapper made for every member.
NeedsWrapperAlways(group) == TRUE

\* Line 367: `"_pl_alt" not in group`.
NeedsWrapper(group) == group.pl_alt = 0

\* Lines 368-372.
Wrapper(group) ==
    [kind |-> "wrapper", numberChoose |-> group.pick_count,
     points |-> group.question_points, alternatives |-> <<>>]

\* A file or sub-directory `file` (numbered n for images) of question dir `dir`.
File(dir, file, n) == [dir |-> dir, file |-> file, n |-> n]

\* handle_images, lines 224-236: what `done` downloaded images leave behind.
ImageFiles(dir, started, done) ==
    (IF started THEN {File(dir, "clientFilesQuestion", 0)} ELSE {})
        \cup {File(dir, "image", n) : n \in 1..done}

----------------------------------------------------------------------------
\* Inputs.

\* The titles the operator may type; <<>> is the blank line.
Titles == {<<>>, <<"a", " ">>, <<"_">>}

QuizTitles == {<<"q", " ">>}

\* What the repository holds before the run.
InitialDirs ==
    {[q |-> {}, a |-> {}],
      [q |-> {<<"a">>, <<"a", "_", "1">>, <<"_", "1">>},
      a |-> {<<"q">>, <<"q", "_", "1">>, <<"_", "1">>}]}

\* The pages of n question records, with ids first, first + 1, ...
RECURSIVE PagesOf(_, _)
PagesOf(first, n) ==
    IF n = 0 THEN {<<>>}
    ELSE {<<WireQuestion(first, g)>> \o rest :
             g \in {NoGroup} \cup GroupIds, rest \in PagesOf(first + 1, n - 1)}

\* The record of a step: its name, what it was given (kind), the group id it
\* concerned (gid) and how it ended (out).
Step(name, kind, gid, out) == [step |-> name, kind |-> kind, gid |-> gid, out |-> out]

\* The state in which main() starts.
MainInit(m, d) ==
    /\ pc = "start"
    /\ err = "None"
    /\ marker = m
    /\ requests = 0
    /\ failed = FALSE
    /\ quiz_title = <<>>
    /\ wire = <<>>
    /\ qi = 1
    /\ i = 1
    /\ questions = <<>>
    /\ groups = <<>>
    /\ gi = 1
    /\ shifted = <<>>
    /\ group_requests = [g \in GroupIds |-> 0]
    /\ qdirs = d.q /\ adirs = d.a
    /\ files = {}
    /\ quiz_name = <<>>
    /\ k = 1
    /\ pl_quiz_questions = <<>>
    /\ created = <<>>
    /\ written = [done |-> FALSE, questions |-> <<>>]
    /\ last = Step("Init", "", NoGroup, "ok")

Init ==
    /\ \E m \in BOOLEAN, d \in InitialDirs : MainInit(m, d)
    /\ question_text = <<>>
    /\ question_answers = <<>>
    /\ template = <<>>
    /\ template_written = FALSE
    /\ image_text = <<>>
    /\ image_out = <<>>
    /\ image_count = 0
    /\ images_handled = FALSE

\* An exception leaves main(): nothing runs after it.
Raise(e) == pc' = "error" /\ err' = e

\* The marker check left out.
MarkerNeverMissing(m) == FALSE

\* Line 293: `not os.path.exists(os.path.join(pl_repo, "infoCourse.json"))`.
MarkerMissing(m) == ~m

\* Lines 291-294: the repository marker is checked before anything is fetched.
CheckRepo ==
    /\ pc = "start"
    /\ IF MarkerMissing(marker) THEN Raise("ValueError")
       ELSE pc' = "course" /\ UNCHANGED err
    /\ last' = Step("CheckRepo", "", NoGroup, IF pc' = "error" THEN "raised" ELSE "ok")
    /\ UNCHANGED <<renderVars, imageVars, marker, requests, failed, quiz_title, reconcilerVars, fsVars,
                   assemblerVars>>

\* Line 297, Canvas.course: one GET.
FetchCourse ==
    /\ pc = "course"
    /\ \E ok \in BOOLEAN :
        /\ requests' = requests + 1
        /\ failed' = (failed \/ ~ok)
        /\ IF RaiseForStatus(ok) THEN Raise("HTTPError")
           ELSE pc' = "quiz" /\ UNCHANGED err
    /\ last' = Step("FetchCourse", "", NoGroup, IF pc' = "error" THEN "raised" ELSE "ok")
    /\ UNCHANGED <<renderVars, imageVars, marker, quiz_title, reconcilerVars, fsVars, assemblerVars>>

\* Line 300, Course.quiz: one GET, which brings the quiz title.
FetchQuiz ==
    /\ pc = "quiz"
    /\ \E ok \in BOOLEAN, t \in QuizTitles :
        /\ requests' = requests + 1
        /\ failed' = (failed \/ ~ok)
        /\ IF RaiseForStatus(ok)
           THEN Raise("HTTPError") /\ UNCHANGED quiz_title
           ELSE pc' = "pages" /\ quiz_title' = t /\ UNCHANGED err
    /\ last' = Step("FetchQuiz", "", NoGroup, IF pc' = "error" THEN "raised" ELSE "ok")
    /\ UNCHANGED <<renderVars, imageVars, marker, reconcilerVars, fsVars, assemblerVars>>

\* Canvas.request, lines 29-40, for the question pages: one GET per step; the
\* loop ends with the page whose current link is the last link.  A page that
\* is not the last is full and is followed by a page that is not empty.
FetchPage ==
    /\ pc = "pages"
    /\ \E ok \in BOOLEAN, isLast \in BOOLEAN, n \in 0..PerPage :
       \E page \in PagesOf(Len(wire) + 1, n) :
        /\ Len(wire) + n <= MaxQuestions
        /\ isLast => (n > 0 \/ wire = <<>>)
        /\ ~isLast => (n = PerPage /\ Len(wire) + n < MaxQuestions)
        /\ requests' = requests + 1
        /\ failed' = (failed \/ ~ok)
        /\ IF RaiseForStatus(ok)
           THEN Raise("HTTPError") /\ UNCHANGED wire
           ELSE /\ wire' = wire \o page
                /\ pc' = IF isLast THEN "questions" ELSE "pages"
                /\ UNCHANGED err
    /\ last' = Step("FetchPage", "", NoGroup, IF pc' = "error" THEN "raised" ELSE "ok")
    /\ UNCHANGED <<renderVars, imageVars, marker, quiz_title, qi, i, questions, groups, gi, shifted,
                   group_requests, fsVars, assemblerVars>>

\* Lines 152-166: one iteration of the loop over the wire questions.  The
\* group is taken from `groups` when cached; otherwise Quiz.question_group
\* asks the API for it (no GET for a question without a group id).
ReconcileQuestion ==
    /\ pc = "questions"
    /\ qi <= Len(wire)
    /\ LET question == wire[qi]
           gid == question.quiz_group_id
           cached == InGroups(groups, gid)
           asks == ~cached /\ gid # NoGroup
           given(resp) == IF cached THEN "cached"
                          ELSE IF gid = NoGroup THEN "nogroup" ELSE resp.kind
       IN  \E ok \in BOOLEAN, resp \in GroupResponses(gid) :
            /\ requests' = IF asks THEN requests + 1 ELSE requests
            /\ group_requests' =
                 IF asks THEN [group_requests EXCEPT ![gid] = @ + 1]
                 ELSE group_requests
            /\ failed' = (failed \/ (asks /\ ~ok))
            /\ IF asks /\ RaiseForStatus(ok)
               THEN /\ Raise("HTTPError")
                    /\ last' = Step("ReconcileQuestion", "error", gid, "raised")
                    /\ UNCHANGED <<qi, i, questions, groups>>
               ELSE LET hasGroup == cached \/ (asks /\ Truthy(resp))
                        group == IF cached THEN GroupOf(groups, gid)
                                 ELSE resp.group
                    IN  /\ groups' = IF ~cached /\ hasGroup
                                     THEN Append(groups, group) ELSE groups
                        /\ questions' =
                             Append(questions,
                                    Positioned(question, hasGroup, group, i))
                        /\ i' = IF hasGroup THEN i ELSE i + 1
                        /\ qi' = qi + 1
                        /\ last' = Step("ReconcileQuestion", given(resp), gid, "ok")
                        /\ UNCHANGED <<pc, err>>
    /\ UNCHANGED <<renderVars, imageVars, marker, quiz_title, wire, gi, shifted, fsVars, assemblerVars>>

\* Lines 168-175: one iteration of the shift loop.
ShiftGroup ==
    /\ pc = "questions"
    /\ qi > Len(wire)
    /\ gi <= Len(ShiftTargets(groups, questions))
    /\ questions' = ShiftFor(questions, ShiftTargets(groups, questions)[gi])
    /\ gi' = gi + 1
    /\ shifted' = Append(shifted, ShiftTargets(groups, questions)[gi].id)
    /\ last' = Step("ShiftGroup", "", ShiftTargets(groups, questions)[gi].id, "ok")
    /\ UNCHANGED <<renderVars, imageVars, pc, err, marker, requests, failed, quiz_title, wire, qi, i,
                   groups, group_requests, fsVars, assemblerVars>>

\* Lines 177-180 and 305: both dicts are returned sorted by position.
ReturnSorted ==
    /\ pc = "questions"
    /\ qi > Len(wire)
    /\ gi > Len(ShiftTargets(groups, questions))
    /\ questions' = SortedByPosition(questions)
    /\ groups' = SortedByPosition(groups)
    /\ pc' = "dirs"
    /\ last' = Step("ReturnSorted", "", NoGroup, "ok")
    /\ UNCHANGED <<renderVars, imageVars, err, marker, requests, failed, quiz_title, wire, qi, i, gi,
                   shifted, group_requests, fsVars, assemblerVars>>

\* Lines 307-320: questions_dir and assessments_dir are made if missing and the
\* assessment directory is created under a name that is free.
PrepareDirs ==
    /\ pc = "dirs"
    /\ quiz_name' = AssessmentName(quiz_title, adirs)
    /\ adirs' = adirs \cup {quiz_name'}
    /\ pc' = "loop"
    /\ last' = Step("PrepareDirs", "", NoGroup, "ok")
    /\ UNCHANGED <<renderVars, imageVars, err, marker, requests, failed, quiz_title, reconcilerVars,
                   qdirs, files, created, written, assemblerVars>>

\* Lines 335-558: one iteration of the loop of main() over the reconciled
\* questions.  The operator types `title`; the body holds `nimg` absolute
\* images, and the GET of image `failAt` (0: none) returns a rejected status.
HandleQuestion ==
    /\ pc = "loop"
    /\ k <= Len(questions)
    /\ \E title \in Titles, failAt \in 0..questions[k].images :
        LET question == questions[k]
            nimg == question.images
            gid == question.quiz_group_id
            name == QuestionName(title, qdirs)
            alt == QuestionAlt(quiz_title, question, name)
            raised == failAt > 0 /\ RaiseForStatus(FALSE)
            done == IF raised THEN failAt - 1 ELSE nimg
            given == IF title = <<>> THEN "blank" ELSE "titled"
        IN  IF IsBlank(title)
            THEN /\ k' = k + 1
                 /\ last' = Step("HandleQuestion", given, gid, "skipped")
                 /\ UNCHANGED <<pc, err, requests, failed, groups, qdirs, files,
                                created, pl_quiz_questions>>
            ELSE /\ qdirs' = qdirs \cup {name}
                 /\ created' = Append(created, [name |-> name, id |-> question.id,
                                                 title |-> title])
                 /\ IF HasGroupId(question) /\ ~InGroups(groups, gid)
                    THEN \* line 366: groups[...] raises
                         /\ Raise("KeyError")
                         /\ last' = Step("HandleQuestion", given, gid, "raised")
                         /\ UNCHANGED <<k, requests, failed, groups, files,
                                        pl_quiz_questions>>
                    ELSE /\ IF HasGroupId(question)
                            THEN LET n == CHOOSE n \in 1..Len(groups) :
                                              groups[n].id = gid
                                     group == groups[n]
                                     new == NeedsWrapper(group)
                                     at == IF new THEN Len(pl_quiz_questions) + 1
                                           ELSE group.pl_alt
                                     list == IF new
                                             THEN Append(pl_quiz_questions,
                                                         Wrapper(group))
                                             ELSE pl_quiz_questions
                                 IN  /\ groups' = [groups EXCEPT ![n].pl_alt = at]
                                     /\ pl_quiz_questions' =
                                          [list EXCEPT ![at].alternatives =
                                                           Append(@, alt)]
                            ELSE /\ pl_quiz_questions' =
                                      Append(pl_quiz_questions, alt)
                                 /\ UNCHANGED groups
                         /\ requests' = requests + (IF failAt > 0 THEN failAt ELSE nimg)
                         /\ failed' = (failed \/ failAt > 0)
                         /\ files' = files \cup {File(name, "info.json", 0)}
                                \cup ImageFiles(name, nimg > 0, done)
                                \cup (IF raised THEN {}
                                      ELSE {File(name, "question.html", 0)})
                         /\ IF raised
                            THEN /\ Raise("HTTPError")
                                 /\ last' = Step("HandleQuestion", given, gid, "raised")
                                 /\ UNCHANGED k
                            ELSE /\ k' = k + 1
                                 /\ last' = Step("HandleQuestion", given, gid, "ok")
                                 /\ UNCHANGED <<pc, err>>
    /\ UNCHANGED <<renderVars, imageVars, marker, quiz_title, wire, qi, i, questions, gi, shifted,
                   group_requests, adirs, quiz_name, written>>

\* Lines 560-572: the assessment descriptor is written after the loop.
WriteAssessment ==
    /\ pc = "loop"
    /\ k > Len(questions)
    /\ written' = [done |-> TRUE, questions |-> pl_quiz_questions]
    /\ pc' = "done"
    /\ last' = Step("WriteAssessment", "", NoGroup, "ok")
    /\ UNCHANGED <<renderVars, imageVars, err, marker, requests, failed, quiz_title, reconcilerVars,
                   qdirs, adirs, files, quiz_name, created, assemblerVars>>

Next ==
    \/ CheckRepo
    \/ FetchCourse
    \/ FetchQuiz
    \/ FetchPage
    \/ ReconcileQuestion
    \/ ShiftGroup
    \/ ReturnSorted
    \/ PrepareDirs
    \/ HandleQuestion
    \/ WriteAssessment

Spec == Init /\ [][Next]_vars

----------------------------------------------------------------------------
\* Properties of the reconciler.

\* The reconciler has returned to main().
Reconciled == pc \in {"dirs", "loop", "done"} \/ (pc = "error" /\ quiz_name # <<>>)

\* A question owned by a resolved group; every other question is ungrouped.
Owned(q) == InGroups(groups, q.quiz_group_id)

PositionsTaken ==
    [n \in 1..Len(SelectSeq(questions, LAMBDA q : ~Owned(q))) |->
        SelectSeq(questions, LAMBDA q : ~Owned(q))[n].position]
    \o [n \in 1..Len(groups) |-> groups[n].position]

\* The positions of the ungrouped questions and of the resolved groups are a
\* permutation of 1..N, and every question owned by a resolved group carries
\* that group's position.
PositionsArePermutation ==
    /\ Range(PositionsTaken) = 1..Len(PositionsTaken)
    /\ \A n \in 1..Len(questions) :
         Owned(questions[n]) =>
            questions[n].position =
                GroupOf(groups, questions[n].quiz_group_id).position

\* The quiz is one Canvas can hold: every group id resolves on its first
\* request, and the groups stand at distinct slots among the N items.
QuizLayout ==
    /\ \A n \in 1..Len(questions) :
         questions[n].quiz_group_id # NoGroup => Owned(questions[n])
    /\ \A g \in GroupIds : group_requests[g] <= 1
    /\ \A m, n \in 1..Len(groups) : m # n => groups[m].position # groups[n].position
    /\ \A n \in 1..Len(groups) : groups[n].position <= Len(PositionsTaken)

\* C1: once Quiz.questions() has returned, the positions of the ungrouped
\* questions and of the resolved groups are a permutation of 1..N, and every
\* question owned by a resolved group carries that group's position; stated
\* here for the quizzes Canvas can hold, in any wire order.
C1_PositionInvariant == (Reconciled /\ QuizLayout) => PositionsArePermutation

\* C1 for any group records at all (any positions, any answers of the API).
C1_PositionInvariantAnyRecords == Reconciled => PositionsArePermutation

C3_UnresolvedGroup ==
    [][(last'.step = "ReconcileQuestion"
            /\ last'.kind \in {"null", "empty", "nogroup"}) =>
        /\ pc' = "questions" /\ err' = "None"
        /\ groups' = groups
        /\ ~InGroups(groups', wire[qi].quiz_group_id)
        /\ questions' = Append(questions, [wire[qi] EXCEPT !.position = i])
        /\ questions'[Len(questions')].points_possible = wire[qi].points_possible
        /\ i' = i + 1
        /\ qi' = qi + 1]_vars

\* A question whose group id resolved to an empty record has been numbered
\* after an earlier question.
C3_Witness ==
    /\ last.step = "ReconcileQuestion"
    /\ last.kind = "empty"
    /\ last.gid # NoGroup
    /\ Len(questions) >= 2
    /\ questions[Len(questions)].position = 2

----------------------------------------------------------------------------
\* Properties of the assembler loop.

pl_questions == pl_quiz_questions

\* The reconciled question with the given id.
QuestionById(id) == CHOOSE q \in Range(questions) : q.id = id

\* The group id of the question a directory was created for.
GroupIdOf(c) == QuestionById(c.id).quiz_group_id

\* The alternative descriptor of a confirmed question.
AltOf(c) ==
    [kind |-> "alt",
     id |-> file_name_only(quiz_title) \o <<"/">> \o c.name,
     points |-> QuestionById(c.id).points_possible]

\* The alternatives of the non-skipped members of group g, in the order in
\* which they were confirmed.
MemberAlts(g) ==
    LET cs == SelectSeq(created, LAMBDA c : GroupIdOf(c) = g.id)
    IN  [n \in 1..Len(cs) |-> AltOf(cs[n])]

Wrappers == {n \in 1..Len(pl_questions) : pl_questions[n].kind = "wrapper"}

\* C4: every resolved group with a non-skipped member has exactly one wrapper
\* in the question list, with the pick-count and points of the group record
\* and with all its non-skipped members as alternatives; a group without one
\* has none; a question without group id is a top-level entry of its own and
\* is in no wrapper.
C4_GroupAggregation ==
    /\ \A n \in 1..Len(groups) :
         IF MemberAlts(groups[n]) = <<>>
         THEN groups[n].pl_alt = 0
         ELSE /\ groups[n].pl_alt \in Wrappers
              /\ pl_questions[groups[n].pl_alt] =
                   [kind |-> "wrapper",
                    numberChoose |-> groups[n].pick_count,
                    points |-> groups[n].question_points,
                    alternatives |-> MemberAlts(groups[n])]
    /\ \A m, n \in 1..Len(groups) :
         (m # n /\ groups[m].pl_alt # 0) => groups[m].pl_alt # groups[n].pl_alt
    /\ Cardinality(Wrappers) =
         Cardinality({n \in 1..Len(groups) : MemberAlts(groups[n]) # <<>>})
    /\ \A n \in 1..Len(created) :
         GroupIdOf(created[n]) = NoGroup =>
            /\ Cardinality({m \in 1..Len(pl_questions) :
                              pl_questions[m] = AltOf(created[n])}) = 1
            /\ \A m \in Wrappers :
                 AltOf(created[n]) \notin Range(pl_questions[m].alternatives)

\* The list holds a question without group id followed by the wrapper of a
\* group with two confirmed members.
C4_Witness ==
    /\ Len(pl_questions) = 2
    /\ pl_questions[1].kind = "alt"
    /\ pl_questions[2].kind = "wrapper"
    /\ Len(pl_questions[2].alternatives) = 2

\* The first alternative of a top-level entry.
FirstAlt(e) == IF e.kind = "wrapper" THEN e.alternatives[1] ELSE e

\* When the question of an alternative was confirmed.
CreatedIndex(a) == CHOOSE n \in 1..Len(created) : AltOf(created[n]) = a

\* The reconciled position an entry counts with.
EntryPosition(e) == QuestionById(created[CreatedIndex(FirstAlt(e))].id).position

\* C5: the top-level list is in reconciled position order (a wrapper counting
\* with its first non-skipped member), every entry stands where its first
\* non-skipped member was processed, no group has two wrappers, only
\* confirmed questions have entries, and the list is what is written.
C5_OutputOrder ==
    /\ \A n \in 1..Len(pl_questions) :
         /\ pl_questions[n].kind = "wrapper" => pl_questions[n].alternatives # <<>>
         /\ \E m \in 1..Len(created) : AltOf(created[m]) = FirstAlt(pl_questions[n])
    /\ \A a, b \in 1..Len(pl_questions) :
         a < b =>
            /\ EntryPosition(pl_questions[a]) <= EntryPosition(pl_questions[b])
            /\ CreatedIndex(FirstAlt(pl_questions[a]))
                 < CreatedIndex(FirstAlt(pl_questions[b]))
            /\ (a \in Wrappers /\ b \in Wrappers) =>
                 GroupIdOf(created[CreatedIndex(FirstAlt(pl_questions[a]))])
                   # GroupIdOf(created[CreatedIndex(FirstAlt(pl_questions[b]))])
    /\ written.done = (pc = "done")
    /\ pc = "done" => written.questions = pl_questions

\* The descriptor is written with a wrapper between two standalone questions,
\* after a skipped question.
C5_Witness ==
    /\ pc = "done"
    /\ Len(written.questions) = 2
    /\ written.questions[1].kind = "wrapper"
    /\ written.questions[2].kind = "alt"
    /\ Len(created) < Len(questions)

\* The list that the confirmed questions alone give, in the order confirmed.
RECURSIVE ExpectedList(_)
ExpectedList(cs) ==
    IF cs = <<>> THEN <<>>
    ELSE LET prev == ExpectedList(SubSeq(cs, 1, Len(cs) - 1))
             c == cs[Len(cs)]
             gid == GroupIdOf(c)
             earlier == {n \in 1..(Len(cs) - 1) : GroupIdOf(cs[n]) = gid}
             first == CHOOSE n \in earlier : \A m \in earlier : n <= m
             at == CHOOSE n \in 1..Len(prev) :
                      /\ prev[n].kind = "wrapper"
                      /\ prev[n].alternatives[1] = AltOf(cs[first])
         IN  IF gid = NoGroup THEN Append(prev, AltOf(c))
             ELSE IF ~InGroups(groups, gid) THEN prev
             ELSE IF earlier = {}
             THEN Append(prev,
                         [kind |-> "wrapper",
                          numberChoose |-> GroupOf(groups, gid).pick_count,
                          points |-> GroupOf(groups, gid).question_points,
                          alternatives |-> <<AltOf(c)>>])
             ELSE [prev EXCEPT ![at].alternatives = Append(@, AltOf(c))]

\* C6: the step of a blank title changes neither the filesystem nor the
\* question list nor any wrapper, and the list and the files are at all times
\* what the confirmed questions alone give.
C6_SkipLeavesNoTrace ==
    /\ [][(last'.step = "HandleQuestion" /\ last'.kind = "blank") =>
            /\ UNCHANGED <<qdirs, adirs, files, quiz_name, created, written,
                           pl_quiz_questions, groups, pc, err, requests>>
            /\ k' = k + 1]_vars
    /\ [](/\ pl_questions = ExpectedList(created)
          /\ \A f \in files : \E n \in 1..Len(created) : created[n].name = f.dir)

\* A question is skipped between two confirmed questions.
C6_Witness ==
    /\ pc = "done"
    /\ Len(questions) = 3
    /\ Len(created) = 2
    /\ created[1].id = questions[1].id
    /\ created[2].id = questions[3].id

\* The name the rule gives in a directory holding `entries`: the base when it
\* names nothing that exists, otherwise base_k for the smallest free k >= 1.
FreeName(base, entries) ==
    IF base # <<>> /\ base \notin entries THEN base
    ELSE Suffixed(base,
                  CHOOSE n \in 1..(Cardinality(entries) + 1) :
                      /\ Suffixed(base, n) \notin entries
                      /\ \A m \in 1..(n - 1) : Suffixed(base, m) \in entries)

\* C7: every question directory and the assessment directory are created
\* under a name that did not exist, which is the sanitized title when that is
\* free and otherwise the sanitized title with the smallest free suffix _k,
\* k >= 1; the names created in a run are pairwise distinct.
C7_FreshNames ==
    /\ [][created' # created =>
            LET c == created'[Len(created')]
            IN  /\ c.title # <<>>
                /\ c.name \notin qdirs
                /\ c.name = FreeName(file_name_only(c.title), qdirs)
                /\ qdirs' = qdirs \cup {c.name}]_vars
    /\ [][quiz_name' # quiz_name =>
            /\ quiz_name' \notin adirs
            /\ quiz_name' = FreeName(file_name_only(quiz_title), adirs)
            /\ adirs' = adirs \cup {quiz_name'}]_vars
    /\ [](\A m, n \in 1..Len(created) :
            m # n => created[m].name # created[n].name)

\* A re-run: the assessment and a question both get the suffix _2, and another
\* question of the same title the suffix _3.
C7_Witness ==
    /\ quiz_name = <<"q", "_", "2">>
    /\ Len(created) = 2
    /\ created[1].name = <<"a", "_", "2">>
    /\ created[2].name = <<"a", "_", "3">>

\* C8: without the marker file main() raises before any request is issued and
\* before anything is created.
C8_MarkerCheckedFirst ==
    ~marker =>
        /\ pc \in {"start", "error"}
        /\ pc = "error" => err = "ValueError"
        /\ requests = 0
        /\ files = {} /\ created = <<>> /\ quiz_name = <<>>
        /\ ~written.done
        /\ \E d \in InitialDirs : qdirs = d.q /\ adirs = d.a

C8_Witness == ~marker /\ pc = "error" /\ err = "ValueError" /\ last.step = "CheckRepo"

----------------------------------------------------------------------------
\* Rendering of a fill_in_multiple_blanks question, lines 482-493.

\* str.replace(old, new): every occurrence of old, left to right.
RECURSIVE StrReplace(_, _, _)
StrReplace(text, old, new) ==
    IF Len(text) < Len(old) THEN text
    ELSE IF SubSeq(text, 1, Len(old)) = old
         THEN new \o StrReplace(SubSeq(text, Len(old) + 1, Len(text)), old, new)
         ELSE <<Head(text)>> \o StrReplace(Tail(text), old, new)

\* f"[{answer_id}]"
Placeholder(id) == <<"[", id, "]">>

\* Line 491, the <pl-string-input> element, with its answers-name and its
\* correct-answer (the other attributes are fixed and left out).
StringInput(id, text) == <<"<", id, "=", text, ">">>

\* Lines 483-487: the blank ids in order of first appearance.
RECURSIVE BlankIds(_)
BlankIds(as) ==
    IF as = <<>> THEN <<>>
    ELSE LET before == BlankIds(SubSeq(as, 1, Len(as) - 1))
         IN  IF as[Len(as)].blank_id \in Range(before) THEN before
             ELSE Append(before, as[Len(as)].blank_id)

\* options[answer_id]: the answers of a blank, in order.
OptionsOf(as, id) == SelectSeq(as, LAMBDA a : a.blank_id = id)

\* Lines 488-492: the loop over options.items(); the string that
\* question_text.replace returns is not assigned, so the text stays as it is.
RECURSIVE FillInBlanks(_, _, _)
FillInBlanks(text, ids, as) ==
    IF ids = <<>> THEN text
    ELSE LET replaced == StrReplace(text, Placeholder(Head(ids)),
                                    StringInput(Head(ids),
                                                OptionsOf(as, Head(ids))[1].text))
         IN  FillInBlanks(text, Tail(ids), as)

\* The bodies of up to n pieces, a piece being text or a placeholder.
BodyPieces == {<<"x">>, Placeholder("1"), Placeholder("2")}

RECURSIVE Bodies(_)
Bodies(n) ==
    IF n = 0 THEN {<<>>}
    ELSE {<<>>} \cup {piece \o rest : piece \in BodyPieces, rest \in Bodies(n - 1)}

\* The answer lists of up to n answers.
AnswerRecords == [blank_id : {"1", "2"}, text : {"u", "v"}]

RECURSIVE AnswerLists(_)
AnswerLists(n) ==
    IF n = 0 THEN {<<>>}
    ELSE {<<>>} \cup {<<a>> \o rest : a \in AnswerRecords, rest \in AnswerLists(n - 1)}

InitRender ==
    /\ MainInit(TRUE, [q |-> {}, a |-> {}])
    /\ question_text \in Bodies(MaxPieces)
    /\ question_answers \in AnswerLists(MaxAnswers)
    /\ template = <<>>
    /\ template_written = FALSE
    /\ image_text = <<>>
    /\ image_out = <<>>
    /\ image_count = 0
    /\ images_handled = FALSE

\* Lines 482-493: question.html of a fill_in_multiple_blanks question (no
\* question panel is written for this type, lines 400-403).
WriteFillInBlanks ==
    /\ ~template_written
    /\ template' = FillInBlanks(question_text, BlankIds(question_answers),
                                question_answers) \o <<"\n">>
    /\ template_written' = TRUE
    /\ UNCHANGED <<mainVars, imageVars, question_text, question_answers>>

NextRender == WriteFillInBlanks

SpecRender == InitRender /\ [][NextRender]_vars

\* The body with the placeholders of the given blanks substituted.
RECURSIVE Substituted(_, _, _)
Substituted(text, ids, as) ==
    IF ids = <<>> THEN text
    ELSE Substituted(StrReplace(text, Placeholder(Head(ids)),
                                StringInput(Head(ids),
                                            OptionsOf(as, Head(ids))[1].text)),
                     Tail(ids), as)

\* text holds old as a substring.
Contains(text, old) ==
    \E n \in 1..(Len(text) - Len(old) + 1) : SubSeq(text, n, n + Len(old) - 1) = old

\* C10: question.html of a fill_in_multiple_blanks question is the body with
\* every [blank_id] placeholder replaced by a string input whose accepted value
\* is the text of the first answer of that blank; no placeholder of a blank
\* that has answers is left.
C10_BlanksSubstituted ==
    template_written =>
        /\ template = Substituted(question_text, BlankIds(question_answers),
                                  question_answers) \o <<"\n">>
        /\ \A n \in 1..Len(question_answers) :
             ~Contains(template, Placeholder(question_answers[n].blank_id))

----------------------------------------------------------------------------
\* handle_images() (lines 211-258).  A question body is a sequence of tokens:
\* a tag or a run of text; a tag is never split.  Every download succeeds here
\* (a failing download is a step of HandleQuestion).

Http == <<"h", "t", "t", "p">>
AbsoluteSrc == Http \o <<"a">>
RelativeSrc == <<"a">>

Token(tag, src, alt, file) == [tag |-> tag, src |-> src, alt |-> alt, file |-> file]
POpen == Token("p", <<>>, <<>>, 0)
PClose == Token("/p", <<>>, <<>>, 0)
Text == Token("text", <<>>, <<>>, 0)
\* <img src="src" alt="alt">; an empty alt stands for no alt attribute too.
Img(src, alt) == Token("img", src, alt, 0)
\* <pl-figure file-name="image_n.ext" alt="alt"></pl-figure>
Figure(n, alt) == Token("pl-figure", <<>>, alt, n)

BodyTokens ==
    {POpen, PClose, Text,
     Img(AbsoluteSrc, <<>>), Img(AbsoluteSrc, <<"d">>), Img(RelativeSrc, <<>>)}

TokenSeqs(n) == UNION {[1..m -> BodyTokens] : m \in 0..n}

\* url.startswith(prefix)
StartsWith(url, prefix) ==
    Len(url) >= Len(prefix) /\ SubSeq(url, 1, Len(prefix)) = prefix

\* Line 213: the matches of (<p>)?(<img ...>)(</p>)? in text from token n on,
\* left to right and not overlapping; g1 and g4 say whether the optional
\* groups 1 and 4 took part.
RECURSIVE ImgMatches(_, _)
ImgMatches(text, n) ==
    IF n > Len(text) THEN <<>>
    ELSE LET g1 == text[n] = POpen /\ n < Len(text) /\ text[n + 1].tag = "img"
             at == IF g1 THEN n + 1 ELSE n
         IN IF text[at].tag = "img"
            THEN LET g4 == at < Len(text) /\ text[at + 1] = PClose
                     end == IF g4 THEN at + 1 ELSE at
                 IN <<[g1 |-> g1, img |-> text[at], g4 |-> g4]>>
                        \o ImgMatches(text, end + 1)
            ELSE ImgMatches(text, n + 1)

\* Lines 247-250: the tag alone, or the whole match when it is <p><img></p>.
ReplaceStr(match) ==
    IF match.g1 /\ match.g4 THEN <<POpen, match.img, PClose>> ELSE <<match.img>>

\* text.replace(old, new): every occurrence, on the token sequence.
StrReplaceEvery(text, old, new) == StrReplace(text, old, new)

\* text.replace(old, new, 1): the first occurrence only.
RECURSIVE StrReplaceOnce(_, _, _)
StrReplaceOnce(text, old, new) ==
    IF Len(text) < Len(old) \/ old = <<>> THEN text
    ELSE IF SubSeq(text, 1, Len(old)) = old
         THEN new \o SubSeq(text, Len(old) + 1, Len(text))
         ELSE <<Head(text)>> \o StrReplaceOnce(Tail(text), old, new)

\* Lines 213-257: the loop over the matches of the text handle_images() was
\* called with; text is rebound by every replacement, n counts the files.
RECURSIVE ReplaceMatches(_, _, _)
ReplaceMatches(matches, text, n) ==
    IF matches = <<>> THEN [text |-> text, count |-> n]
    ELSE LET match == Head(matches)
         IN IF ~StartsWith(match.img.src, Http)
            THEN ReplaceMatches(Tail(matches), text, n)
            ELSE ReplaceMatches(Tail(matches),
                                StrReplaceOnce(text, ReplaceStr(match),
                                               <<Figure(n + 1, match.img.alt)>>),
                                n + 1)

handle_images(text) == ReplaceMatches(ImgMatches(text, 1), text, 0)

InitImages ==
    /\ MainInit(TRUE, [q |-> {}, a |-> {}])
    /\ question_text = <<>>
    /\ question_answers = <<>>
    /\ template = <<>>
    /\ template_written = FALSE
    /\ image_text \in TokenSeqs(MaxTokens)
    /\ image_out = <<>>
    /\ image_count = 0
    /\ images_handled = FALSE

HandleImages ==
    /\ ~images_handled
    /\ image_out' = handle_images(image_text).text
    /\ image_count' = handle_images(image_text).count
    /\ images_handled' = TRUE
    /\ UNCHANGED <<mainVars, renderVars, image_text>>

NextImages == HandleImages

SpecImages == InitImages /\ [][NextImages]_vars

\* The <img> tags with an absolute URL, and how often a token occurs.
AbsoluteImgs == {t \in BodyTokens : t.tag = "img" /\ StartsWith(t.src, Http)}
Occurrences(text, t) == Cardinality({n \in 1..Len(text) : text[n] = t})

\* The text with every absolute-URL <img> (with its <p>...</p> when it has
\* both) replaced where it stands by a figure, numbered from n + 1 on.
RECURSIVE FiguredInPlace(_, _)
FiguredInPlace(text, n) ==
    IF text = <<>> THEN <<>>
    ELSE IF Head(text) \in AbsoluteImgs
         THEN <<Figure(n + 1, Head(text).alt)>> \o FiguredInPlace(Tail(text), n + 1)
         ELSE IF /\ Len(text) >= 3
                 /\ text[1] = POpen /\ text[2] \in AbsoluteImgs /\ text[3] = PClose
              THEN <<Figure(n + 1, text[2].alt)>>
                       \o FiguredInPlace(SubSeq(text, 4, Len(text)), n + 1)
              ELSE <<Head(text)>> \o FiguredInPlace(Tail(text), n)

\* C11 (as stated): when the same absolute-URL <img> tag occurs more than once
\* in the body, only its first occurrence is replaced by a figure and the later
\* occurrences remain as the original <img> tags.
C11_OnlyFirstReplaced ==
    images_handled =>
        \A t \in AbsoluteImgs :
            Occurrences(image_text, t) > 1 =>
                Occurrences(image_out, t) = Occurrences(image_text, t) - 1

\* C11 (amended): every regex match performs its own single replacement, so
\* every occurrence of an absolute-URL <img> tag, repeated or not, is replaced
\* where it stands by its own figure image_1, image_2, ... in text order; no
\* absolute-URL <img> is left and one file is written per occurrence.
C11_EveryOccurrenceReplaced ==
    images_handled =>
        /\ image_out = FiguredInPlace(image_text, 0)
        /\ \A t \in AbsoluteImgs : Occurrences(image_out, t) = 0
        /\ image_count = Cardinality({n \in 1..Len(image_text) :
                                         image_text[n] \in AbsoluteImgs})

\* The same absolute-URL tag stood twice in the body and both occurrences
\* have become figures, image_1 and image_2.
C11_Witness ==
    /\ images_handled
    /\ \E t \in AbsoluteImgs : Occurrences(image_text, t) = 2
    /\ image_count = 2
    /\ Occurrences(image_out, Figure(1, <<>>)) = 1
    /\ Occurrences(image_out, Figure(2, <<>>)) = 1

----------------------------------------------------------------------------
\* C12: during one call of Quiz.questions() the record of every group id is
\* requested from the API at most once, whatever the first request returned;
\* a question whose group id has been seen before causes no request.
C12_GroupRequestedOnce ==
    /\ \A g \in GroupIds : group_requests[g] <= 1
    /\ (/\ last.step = "ReconcileQuestion"
        /\ last.gid # NoGroup
        /\ LET at == IF last.out = "raised" THEN qi ELSE qi - 1
           IN  \E n \in 1..(at - 1) : wire[n].quiz_group_id = last.gid)
           => last.kind = "cached"

\* The record of group g is in the cache.
Resolved(g) == \E n \in 1..Len(groups) : groups[n].id = g

\* The next step is the loop iteration of a question of group g.
ReconcilesMemberOf(g) ==
    pc = "questions" /\ qi <= Len(wire) /\ wire[qi].quiz_group_id = g

\* C12 (amended): a group record is requested exactly on the questions that
\* reference a group id whose record is not in the cache yet, one request per
\* such question.  Only a non-empty record is cached and it stays cached, so
\* no request follows the one that returned a record; after a null or empty
\* answer the next question with that group id asks again.
C12_RequestedUntilCached ==
    [][\A g \in GroupIds :
          /\ group_requests'[g] =
                IF ReconcilesMemberOf(g) /\ ~Resolved(g)
                THEN group_requests[g] + 1 ELSE group_requests[g]
          /\ Resolved(g) => Resolved(g)'
          /\ (Resolved(g)' /\ ~Resolved(g)) =>
                ReconcilesMemberOf(g) /\ last'.kind = "record"
          /\ (ReconcilesMemberOf(g) /\ last'.kind \in {"null", "empty"}) =>
                ~Resolved(g)']_vars

\* A second question of a group whose first request was answered with null or
\* an empty record has been reconciled: the record was requested again.
C12_Witness ==
    /\ last.step = "ReconcileQuestion"
    /\ last.out = "ok"
    /\ last.gid # NoGroup
    /\ group_requests[last.gid] = 2
    /\ \E n \in 1..Len(questions) :
          questions[n].quiz_group_id = last.gid /\ questions[n].position = 1

----------------------------------------------------------------------------
\* C13: whenever the loop of main() has processed a non-skipped question with
\* a group id, the group mapping returned by Quiz.questions() contains that
\* id, and the lookup of line 366 has not raised; this includes the questions
\* whose group the reconciler could not resolve.
C13_GroupLookupNeverFails ==
    /\ err # "KeyError"
    /\ (last.step = "HandleQuestion" /\ last.out # "skipped" /\ last.gid # NoGroup)
          => InGroups(groups, last.gid)

----------------------------------------------------------------------------
\* The places of the output that hold an alternative: <<n, 0>> is entry n of
\* the top-level list, <<n, m>> is alternative m of the wrapper at entry n.
AltSlots ==
    {<<n, 0>> : n \in {e \in 1..Len(pl_questions) : pl_questions[e].kind = "alt"}}
        \cup UNION {{<<n, m>> : m \in 1..Len(pl_questions[n].alternatives)} :
                       n \in Wrappers}

AltAt(s) ==
    IF s[2] = 0 THEN pl_questions[s[1]] ELSE pl_questions[s[1]].alternatives[s[2]]

\* The alternative of confirmed question c stands at s, where it belongs.
InOwnPlace(c, s) ==
    IF GroupIdOf(c) = NoGroup
    THEN s[2] = 0
    ELSE /\ s[2] > 0
         /\ InGroups(groups, GroupIdOf(c))
         /\ GroupOf(groups, GroupIdOf(c)).pl_alt = s[1]

\* C14: after every step of the loop of main(), every question confirmed so
\* far has exactly one alternative in the output, at top level if it has no
\* group and otherwise in the wrapper of its own group and in no other; every
\* wrapper has at least one alternative; and there are as many alternatives
\* in the whole list as confirmed questions.
C14_OneAlternativePerConfirmed ==
    /\ \A n \in 1..Len(created) :
          LET own == {s \in AltSlots : AltAt(s) = AltOf(created[n])}
          IN  Cardinality(own) = 1 /\ \A s \in own : InOwnPlace(created[n], s)
    /\ \A n \in Wrappers : Len(pl_questions[n].alternatives) >= 1
    /\ Cardinality(AltSlots) = Len(created)

\* The same, for the runs in which the group lookup has not raised.
C14_UnlessLookupRaised == err # "KeyError" => C14_OneAlternativePerConfirmed

====
